---- MODULE Spec2Model ----
(***************************************************************************)
(* Clipboard manager (src/clipmgr.py): the in-memory clip store of each    *)
(* process (ClipboardManager.history / .pinned), the two persisted JSON    *)
(* documents (history.json, pinned.json), the polling daemon (daemon_loop) *)
(* and the one-shot foreground commands (select, pin, clear).              *)
(*                                                                         *)
(* A clip is a record [type, content, path, fmt]; the timestamp field of   *)
(* the dataclass is left out: no operation of the store reads it.          *)
(*                                                                         *)
(* Spec    : the daemon and one foreground command at a time run           *)
(*           concurrently on the two documents, step by step.              *)
(* SpecSeq : the same steps, with the two processes never alive together.  *)
(* SpecIO  : Spec with the faults of the environment: undecodable          *)
(*           clipboard content, damaged documents, clipboard reads that    *)
(*           fail and writes that raise OSError.                           *)
(* In Spec and SpecSeq the documents are read and written without fault.   *)
(*                                                                         *)
(* Two more programs of the repository are modelled on their own:          *)
(* SpecRetry : one call of MediaDownloader._run_with_retry (src/mediadl.py)*)
(*             with every sequence of outcomes of the command.             *)
(* SpecBw    : the launches of the password menu (src/bitwarden.py), its   *)
(*             main thread and the thread that clears the clipboard, under *)
(*             weak fairness of both threads.                              *)
(***************************************************************************)
EXTENDS Integers, Sequences, FiniteSets, TLC

\* ------------------------------------------------------------------ bounds
\* number of distinct text payloads / image payloads the user can copy
NumTexts == 2
NumImages == 2
\* in one behaviour: the number of times other applications change the
\* clipboard, the number of foreground commands launched, and the number of
\* times the daemon process is started
MaxCopies == 3
MaxCommands == 3
MaxDaemonRuns == 2
\* the number of these events, all kinds together, in one behaviour of the
\* concurrent specification
MaxEvents == 4
\* the number of these events in one behaviour of the sequential
\* specification: three copies and three pin commands around one daemon run
MaxSeqEvents == 7
\* the number of faults of the environment in one behaviour: a document
\* damaged from outside, a clipboard read that fails, a write that raises
\* OSError
MaxFaults == 2

\* ------------------------------------------------------- program constants
\* MAX_CLIPS / MAX_IMAGE_CLIPS of the configuration block, scaled down from
\* 50 and 20 so that the capacity is exceeded within the bounds above
MAX_CLIPS == 2
MAX_IMAGE_CLIPS == 1
\* MAX_PINNED, the capacity the specification gives pinned; the
\* configuration block defines no such constant
MAX_PINNED == 2

\* Python's None; every optional value of the model is a record, so that it
\* can be compared with None
None == [none |-> TRUE]

\* ------------------------------------------------------------- clip values
TextPayloads == 1..NumTexts
ImagePayloads == 1..NumImages

\* what the OS clipboard can hold: nothing, a text or the bytes of an image
ClipboardContents ==
    {[kind |-> "text", data |-> [str |-> t]] : t \in TextPayloads} \cup
    {[kind |-> "image", data |-> [bytes |-> b]] : b \in ImagePayloads}

\* save_image_bytes: the file name is the content hash of the bytes, so
\* equal bytes give the same path and different bytes a different one
save_image_bytes(data) == [png |-> data.bytes]

\* the PNG that save_image_bytes writes for the bytes (Image.open, convert,
\* img.save): payload 1 is a capture in another encoding whose PNG is
\* payload 2, every other payload is already the PNG Pillow writes
NormalizedPng(data) ==
    IF data.bytes = 1 /\ NumImages >= 2 THEN [bytes |-> 2] ELSE data

\* the bytes of the file at an image path
FileBytes(path) == NormalizedPng([bytes |-> path.png])

\* Clip(type=..., content=..., path=..., fmt=...)
Clip(type, content, path, fmt) ==
    [type |-> type, content |-> content, path |-> path, fmt |-> fmt]

\* Clip.to_dict: asdict of the dataclass
to_dict(c) ==
    [type |-> c.type, content |-> c.content, path |-> c.path, fmt |-> c.fmt]

\* mutant: from_dict reads the path under a key that to_dict does not write
from_dict_WrongKey(d) ==
    Clip(d.type, d.content,
         IF "image_path" \in DOMAIN d THEN d.image_path ELSE None, d.fmt)

\* Clip.from_dict on a dict: fmt is data.get("format") or data.get("fmt")
from_dict(d) ==
    LET format == IF "format" \in DOMAIN d THEN d.format ELSE None
    IN  Clip(d.type, d.content, d.path, IF format # None THEN format ELSE d.fmt)

\* ---------------------------------------------------- persisted documents
\* what a file of CLIP_DIR holds: no file, the text of a JSON array, text
\* that is not valid JSON (a truncated or half-written document, an empty
\* file), the text of a JSON value that is not an array, or bytes that are
\* not UTF-8
AbsentFile == [file |-> "absent", items |-> <<>>]
JsonArray(items) == [file |-> "array", items |-> items]
PartialFile == [file |-> "partial", items |-> <<>>]
JsonObject == [file |-> "object", items |-> <<>>]
UndecodableFile == [file |-> "undecodable", items |-> <<>>]

\* json.dumps / json.load of one value and of one dict of to_dict: None is
\* written as null and null is read as None; type is always a string
JsonNull == [json |-> "null"]

json_dumps_value(v) == IF v = None THEN JsonNull ELSE v

json_load_value(j) == IF j = JsonNull THEN None ELSE j

json_dumps(d) ==
    [type |-> d.type, content |-> json_dumps_value(d.content),
     path |-> json_dumps_value(d.path), fmt |-> json_dumps_value(d.fmt)]

json_load(j) ==
    [type |-> j.type, content |-> json_load_value(j.content),
     path |-> json_load_value(j.path), fmt |-> json_load_value(j.fmt)]

\* save_clips_to_file: the text handed to atomic_write_text, which is the
\* content of the file once os.replace has put it in place
save_clips_to_file(clips) ==
    JsonArray([i \in 1..Len(clips) |-> json_dumps(to_dict(clips[i]))])

\* load_clips_from_file raises: UnicodeDecodeError is neither an OSError
\* nor a json.JSONDecodeError
load_raises(doc) == doc.file = "undecodable"

\* load_clips_from_file, when it returns
load_clips_from_file(doc) ==
    CASE doc.file = "absent" -> <<>>
      [] doc.file = "partial" -> <<>>
      [] doc.file = "object" -> <<>>
      [] doc.file = "array" ->
            [i \in 1..Len(doc.items) |-> from_dict(json_load(doc.items[i]))]

\* get_clipboard_content: image targets first, then the text fallback
get_clipboard_content(cb) ==
    IF cb = None THEN None
    ELSE IF cb.kind = "image"
         THEN Clip("image", None, save_image_bytes(cb.data), [mime |-> "image/png"])
         ELSE Clip("text", cb.data, None, None)

\* clipboard content that is not UTF-8: stdout.decode("utf-8") raises
\* UnicodeDecodeError, which the except clauses of get_clipboard_content
\* do not name
UndecodableBytes == [kind |-> "bytes", data |-> None]

get_clipboard_raises(cb) == cb # None /\ cb.kind = "bytes"

\* the hash daemon_loop compares with last_hash
current_hash(c) ==
    IF c.type = "text" THEN [sha256 |-> c.content] ELSE c.path

\* ------------------------------------------------------ ClipboardManager
\* the test of one `other` in the loop of _is_duplicate_in_list
DuplicateOf(clip, other) ==
    /\ clip.type = other.type
    /\ \/ clip.type = "text" /\ clip.content = other.content
       \/ /\ clip.type = "image"
          /\ clip.path # None
          /\ other.path # None
          /\ clip.path = other.path

_is_duplicate_in_list(clip, clip_list) ==
    \E i \in 1..Len(clip_list) : DuplicateOf(clip, clip_list[i])

\* mutant: the comprehension filters nothing out
WithoutDuplicatesOf_KeepsAll(clip, lst) == lst

\* the list comprehension [c for c in lst if not _is_duplicate_in_list(clip, [c])]
WithoutDuplicatesOf(clip, lst) ==
    SelectSeq(lst, LAMBDA c : ~_is_duplicate_in_list(clip, <<c>>))

\* mutant: add_clip without the test against pinned
add_clip_IgnoringPinned(hist, pins, clip) ==
    IF clip = None THEN hist
    ELSE <<clip>> \o SelectSeq(hist, LAMBDA c : ~_is_duplicate_in_list(clip, <<c>>))

\* mutant: add_clip tests history where it should test pinned
add_clip_ChecksHistory(hist, pins, clip) ==
    IF clip = None THEN hist
    ELSE IF _is_duplicate_in_list(clip, hist) THEN hist
    ELSE <<clip>> \o hist

\* mutant: add_clip appends where it should prepend
add_clip_Appends(hist, pins, clip) ==
    IF clip = None THEN hist
    ELSE IF _is_duplicate_in_list(clip, pins) THEN hist
    ELSE Append(SelectSeq(hist, LAMBDA c : ~_is_duplicate_in_list(clip, <<c>>)), clip)

\* add_clip: the history it leaves (pinned is not written)
add_clip(hist, pins, clip) ==
    IF clip = None THEN hist
    ELSE IF _is_duplicate_in_list(clip, pins) THEN hist
    ELSE <<clip>> \o WithoutDuplicatesOf(clip, hist)

\* the trimming loop at the head of save and save_history_only
RECURSIVE TrimLoop(_, _, _, _, _)
TrimLoop(hist, i, text_count, image_count, trimmed) ==
    IF i > Len(hist) THEN trimmed
    ELSE LET c == hist[i] IN
         IF c.type = "text" /\ text_count < MAX_CLIPS
         THEN TrimLoop(hist, i + 1, text_count + 1, image_count, Append(trimmed, c))
         ELSE IF c.type = "image" /\ image_count < MAX_IMAGE_CLIPS
         THEN TrimLoop(hist, i + 1, text_count, image_count + 1, Append(trimmed, c))
         ELSE TrimLoop(hist, i + 1, text_count, image_count, trimmed)

\* mutant: the loop tests <= where it should test <
RECURSIVE TrimLoopOffByOne(_, _, _, _, _)
TrimLoopOffByOne(hist, i, text_count, image_count, trimmed) ==
    IF i > Len(hist) THEN trimmed
    ELSE LET c == hist[i] IN
         IF c.type = "text" /\ text_count <= MAX_CLIPS
         THEN TrimLoopOffByOne(hist, i + 1, text_count + 1, image_count, Append(trimmed, c))
         ELSE IF c.type = "image" /\ image_count <= MAX_IMAGE_CLIPS
         THEN TrimLoopOffByOne(hist, i + 1, text_count, image_count + 1, Append(trimmed, c))
         ELSE TrimLoopOffByOne(hist, i + 1, text_count, image_count, trimmed)

TrimHistory_OffByOne(hist) == TrimLoopOffByOne(hist, 1, 0, 0, <<>>)

Reversed(lst) == [i \in 1..Len(lst) |-> lst[Len(lst) + 1 - i]]

\* mutant: the loop walks history from the oldest entry
TrimHistory_KeepsOldest(hist) == Reversed(TrimLoop(Reversed(hist), 1, 0, 0, <<>>))

TrimHistory(hist) == TrimLoop(hist, 1, 0, 0, <<>>)

\* save: the keep list, the path of every Image clip of history + pinned
KeepPaths(hist, pins) ==
    {(hist \o pins)[i].path :
        i \in {j \in 1..Len(hist \o pins) :
                  (hist \o pins)[j].type = "image" /\ (hist \o pins)[j].path # None}}

\* mutant: cleanup_old_images unlinks the files that are in keep_paths
cleanup_old_images_DeletesKept(keep_paths, files) ==
    {f \in files : f \notin keep_paths}

\* cleanup_old_images: the files of IMAGE_DIR it leaves, those whose name is
\* in keep_paths
cleanup_old_images(keep_paths, files) ==
    {f \in files : f \in keep_paths}

\* mutant: unpin appends the clip to history where it should insert it at 0
Unpin_AppendsToHistory(hist, pins, clip) ==
    LET p2 == SelectSeq(pins, LAMBDA p : ~_is_duplicate_in_list(clip, <<p>>))
        h2 == IF ~_is_duplicate_in_list(clip, hist) THEN Append(hist, clip) ELSE hist
    IN  <<h2, p2>>

\* pin_menu, the "[P" branch: <<history, pinned>> after unpinning clip
Unpin(hist, pins, clip) ==
    LET p2 == WithoutDuplicatesOf(clip, pins)
        h2 == IF ~_is_duplicate_in_list(clip, hist) THEN <<clip>> \o hist ELSE hist
    IN  <<h2, p2>>

\* mutant: clear_history empties pinned too
ClearHistory_ClearsPinned(hist, pins) == <<<<>>, <<>>>>

\* clear_history between the reload and the save: <<history, pinned>>
ClearHistory(hist, pins) == <<<<>>, pins>>

\* pin_menu, the "[H" branch: <<history, pinned>> after pinning clip
Pin(hist, pins, clip) ==
    LET h2 == WithoutDuplicatesOf(clip, hist)
        p2 == IF ~_is_duplicate_in_list(clip, pins) THEN Append(pins, clip) ELSE pins
    IN  <<h2, p2>>

\* ------------------------------------------------------------------ state
Daemon == "daemon"
Cli == "cli"
Managers == {Daemon, Cli}

VARIABLES
    histDoc,     \* content of HISTORY_PATH
    pinDoc,      \* content of PIN_PATH
    clipboard,   \* the OS clipboard
    history,     \* history[m]: ClipboardManager.history of process m
    pinned,      \* pinned[m]: ClipboardManager.pinned of process m
    dpc,         \* position of the daemon process in daemon_loop
    current,     \* daemon_loop: current
    last_hash,   \* daemon_loop: last_hash
    dirty,       \* daemon_loop: dirty
    cpc,         \* position of the foreground command
    command,     \* args.command of the foreground process
    sel,         \* select_clip / pin_menu: what run_dmenu is returning
    picked,      \* the label group and the clip of the entry that sel matched
    imageDir,    \* the files of IMAGE_DIR, by their path
    deleted,     \* the files the last cleanup_old_images of the command unlinked
    exit_code,   \* exit_code[m]: exit status of process m once it has ended
    observed,    \* identity of the last content a tick of this daemon run read
    ev,          \* the last store operation and what it did
    tog,         \* the last two pin/unpin toggles, when on the same clip
    budget,      \* environment events so far: copies, commands, daemon runs
    rr,          \* mediadl.py: the call of MediaDownloader._run_with_retry
    bw           \* bitwarden.py: the process of the password menu

vars == <<histDoc, pinDoc, clipboard, history, pinned, dpc, current,
          last_hash, dirty, cpc, command, sel, picked, imageDir, deleted,
          exit_code, observed, ev, tog, budget, rr, bw>>

daemonVars == <<dpc, current, last_hash, dirty>>
cliVars == <<cpc, command, sel, picked>>
docVars == <<histDoc, pinDoc>>
imageVars == <<imageDir, deleted>>
clipmgrVars == <<histDoc, pinDoc, clipboard, history, pinned, dpc, current,
                 last_hash, dirty, cpc, command, sel, picked, imageDir, deleted,
                 exit_code, observed, ev, tog, budget>>
toolVars == <<rr, bw>>

NoEv == [op |-> "none", clip |-> None, inPinned |-> FALSE, pos |-> 0, dropped |-> 0]
NoTog == [n |-> 0, clip |-> None, pre1 |-> <<FALSE, FALSE>>, pre2 |-> <<FALSE, FALSE>>]

\* what the X clipboard holds, as far as bitwarden.py is concerned
BwContent(kind, item) == [kind |-> kind, item |-> item]

\* bitwarden.py before its first launch: no process, no clear_clipboard thread,
\* something else on the clipboard
NotLaunched ==
    [pc |-> "idle", item |-> 0, clipboard |-> BwContent("other", 0),
     thread |-> "none", remaining |-> 0, runs |-> 0, exit_code |-> None]

\* _run_with_retry before it is called
NoCall ==
    [pc |-> "idle", arg |-> None, config |-> 0, max_retries |-> 0,
     attempt |-> 0, outcomes |-> <<>>, waits |-> <<>>, result |-> None]

Init ==
    /\ histDoc = AbsentFile
    /\ pinDoc = AbsentFile
    /\ clipboard = None
    /\ history = [m \in Managers |-> <<>>]
    /\ pinned = [m \in Managers |-> <<>>]
    /\ dpc = "stopped"
    /\ current = None
    /\ last_hash = None
    /\ dirty = FALSE
    /\ cpc = "idle"
    /\ command = "none"
    /\ sel = None
    /\ picked = None
    /\ imageDir = {}
    /\ deleted = {}
    /\ exit_code = [m \in Managers |-> None]
    /\ observed = None
    /\ ev = NoEv
    /\ tog = NoTog
    /\ budget = [copies |-> 0, commands |-> 0, runs |-> 0, faults |-> 0]
    /\ rr = NoCall
    /\ bw = NotLaunched

\* ---------------------------------------------------------------- helpers
\* the identity of a clip: (kind, text) for Text, (kind, image_ref) for Image
Identity(c) ==
    IF c.type = "text" THEN [kind |-> "text", ref |-> c.content]
                       ELSE [kind |-> "image", ref |-> c.path]

InList(clip, lst) == _is_duplicate_in_list(clip, lst)

\* position of the first entry of lst that clip duplicates, 0 when none does
PositionIn(clip, lst) ==
    IF InList(clip, lst)
    THEN CHOOSE i \in 1..Len(lst) :
            /\ DuplicateOf(clip, lst[i])
            /\ \A j \in 1..(i - 1) : ~DuplicateOf(clip, lst[j])
    ELSE 0

\* what the last store operation was: the clip it was given, whether that
\* clip was pinned, where it was in history, and how many entries the save
\* that followed dropped
Event(op, clip, inPinned, pos, dropped) ==
    [op |-> op, clip |-> clip, inPinned |-> inPinned, pos |-> pos, dropped |-> dropped]

\* ClipboardManager.reload / __init__ of process m
Reloaded(m) ==
    /\ history' = [history EXCEPT ![m] = load_clips_from_file(histDoc)]
    /\ pinned' = [pinned EXCEPT ![m] = load_clips_from_file(pinDoc)]

\* the exit status of a process that has ended
ExitStatus(n) == [status |-> n]

\* process m ends on an exception that nothing catches: traceback, exit
\* status 1
Crashed(m) ==
    /\ history' = [history EXCEPT ![m] = <<>>]
    /\ pinned' = [pinned EXCEPT ![m] = <<>>]
    /\ exit_code' = [exit_code EXCEPT ![m] = ExitStatus(1)]

\* one more fault of the environment
Fault ==
    /\ budget.faults < MaxFaults
    /\ budget' = [budget EXCEPT !.faults = @ + 1]

\* the memory of process m is gone when it exits
Exited(m) ==
    /\ history' = [history EXCEPT ![m] = <<>>]
    /\ pinned' = [pinned EXCEPT ![m] = <<>>]

\* ------------------------------------------------------------ environment
\* another application puts new content on the clipboard
user_copy(cb) ==
    /\ cb # clipboard
    /\ budget.copies < MaxCopies
    /\ budget' = [budget EXCEPT !.copies = @ + 1]
    /\ clipboard' = cb
    /\ ev' = NoEv
    /\ tog' = NoTog
    /\ UNCHANGED <<docVars, history, pinned, daemonVars, cliVars,
                   exit_code, observed>>
    /\ UNCHANGED imageVars
    /\ UNCHANGED toolVars

\* ----------------------------------------------------------------- daemon
\* main, command "daemon": manager = ClipboardManager(); daemon_loop(manager)
daemon_start ==
    /\ dpc = "stopped"
    /\ budget.runs < MaxDaemonRuns
    /\ budget' = [budget EXCEPT !.runs = @ + 1]
    /\ ~load_raises(histDoc) /\ ~load_raises(pinDoc)
    /\ Reloaded(Daemon)
    /\ exit_code' = [exit_code EXCEPT ![Daemon] = None]
    /\ observed' = None
    /\ last_hash' = None
    /\ dirty' = FALSE
    /\ current' = None
    /\ dpc' = "poll"
    /\ ev' = NoEv
    /\ tog' = NoTog
    /\ UNCHANGED <<docVars, clipboard, cliVars>>
    /\ UNCHANGED imageVars
    /\ UNCHANGED toolVars

\* daemon_loop: current = get_clipboard_content() and the two tests on it
daemon_poll ==
    /\ dpc = "poll"
    /\ ~get_clipboard_raises(clipboard)
    /\ LET cur == get_clipboard_content(clipboard) IN
       /\ IF cur # None /\ current_hash(cur) # last_hash
          THEN current' = cur /\ dpc' = "integrate"
          ELSE current' = None /\ dpc' = "flush"
       /\ observed' = IF cur # None THEN Identity(cur) ELSE observed
       /\ imageDir' = IF cur # None /\ cur.type = "image"
                      THEN imageDir \cup {cur.path}
                      ELSE imageDir
    /\ deleted' = deleted
    /\ ev' = NoEv
    /\ tog' = NoTog
    /\ UNCHANGED <<docVars, clipboard, history, pinned, last_hash, dirty,
                   cliVars, budget, exit_code>>
    /\ UNCHANGED toolVars

\* mutant: the loop does not remember the hash of the clip it added
daemon_integrate_ForgetsHash ==
    /\ dpc = "integrate"
    /\ ~load_raises(pinDoc)
    /\ LET pins == load_clips_from_file(pinDoc) IN
       /\ pinned' = [pinned EXCEPT ![Daemon] = pins]
       /\ history' = [history EXCEPT ![Daemon] = add_clip(@, pins, current)]
       /\ ev' = Event("add", current, InList(current, pins),
                      PositionIn(current, history[Daemon]), 0)
    /\ dirty' = TRUE
    /\ last_hash' = last_hash
    /\ current' = None
    /\ dpc' = "flush"
    /\ tog' = NoTog
    /\ UNCHANGED <<docVars, clipboard, cliVars, budget, exit_code, observed>>
    /\ UNCHANGED imageVars
    /\ UNCHANGED toolVars

\* mutant: the loop adds current against the pinned it loaded earlier
daemon_integrate_NoReload ==
    /\ dpc = "integrate"
    /\ LET pins == pinned[Daemon] IN
       /\ pinned' = [pinned EXCEPT ![Daemon] = pins]
       /\ history' = [history EXCEPT ![Daemon] = add_clip(@, pins, current)]
       /\ ev' = Event("add", current, InList(current, pins),
                      PositionIn(current, history[Daemon]), 0)
    /\ dirty' = TRUE
    /\ last_hash' = current_hash(current)
    /\ current' = None
    /\ dpc' = "flush"
    /\ tog' = NoTog
    /\ UNCHANGED <<docVars, clipboard, cliVars, budget, exit_code, observed>>
    /\ UNCHANGED imageVars
    /\ UNCHANGED toolVars

\* daemon_loop: the block under _lock that reloads pinned and adds current
daemon_integrate ==
    /\ dpc = "integrate"
    /\ ~load_raises(pinDoc)
    /\ LET pins == load_clips_from_file(pinDoc) IN
       /\ pinned' = [pinned EXCEPT ![Daemon] = pins]
       /\ history' = [history EXCEPT ![Daemon] = add_clip(@, pins, current)]
       /\ ev' = Event("add", current, InList(current, pins),
                      PositionIn(current, history[Daemon]), 0)
    /\ dirty' = TRUE
    /\ last_hash' = current_hash(current)
    /\ current' = None
    /\ dpc' = "flush"
    /\ tog' = NoTog
    /\ UNCHANGED <<docVars, clipboard, cliVars, budget, exit_code, observed>>
    /\ UNCHANGED imageVars
    /\ UNCHANGED toolVars

\* mutant: the daemon calls save() where it should call save_history_only()
daemon_flush_FullSave ==
    /\ dpc = "flush"
    /\ IF dirty
       THEN /\ history' = [history EXCEPT ![Daemon] = TrimHistory(@)]
            /\ histDoc' = save_clips_to_file(history'[Daemon])
            /\ pinDoc' = save_clips_to_file(pinned[Daemon])
            /\ ev' = Event("save_history_only", ev.clip, ev.inPinned, ev.pos,
                           Len(history[Daemon]) - Len(history'[Daemon]))
       ELSE /\ ev' = NoEv
            /\ UNCHANGED <<history, histDoc, pinDoc>>
    /\ dirty' = FALSE
    /\ dpc' = "poll"
    /\ tog' = NoTog
    /\ UNCHANGED <<clipboard, pinned, current, last_hash, cliVars, budget,
                   exit_code, observed>>
    /\ UNCHANGED imageVars
    /\ UNCHANGED toolVars

\* mutant: save_history_only opens the target with mode "w" and writes it in
\* place, with no temporary file
daemon_flush_InPlace ==
    /\ dpc = "flush"
    /\ IF dirty
       THEN /\ history' = [history EXCEPT ![Daemon] = TrimHistory(@)]
            /\ histDoc' = PartialFile
            /\ dpc' = "flush_fallback"
            /\ ev' = Event("save_history_only", ev.clip, ev.inPinned, ev.pos,
                           Len(history[Daemon]) - Len(history'[Daemon]))
       ELSE /\ ev' = NoEv
            /\ dpc' = "poll"
            /\ UNCHANGED <<history, histDoc>>
    /\ tog' = NoTog
    /\ UNCHANGED <<pinDoc, clipboard, pinned, current, last_hash, dirty,
                   cliVars, budget, exit_code, observed>>
    /\ UNCHANGED imageVars
    /\ UNCHANGED toolVars

\* daemon_loop: if dirty: save_history_only(); then time.sleep(interval)
daemon_flush ==
    /\ dpc = "flush"
    /\ IF dirty
       THEN /\ history' = [history EXCEPT ![Daemon] = TrimHistory(@)]
            /\ histDoc' = save_clips_to_file(history'[Daemon])
            /\ ev' = Event("save_history_only", ev.clip, ev.inPinned, ev.pos,
                           Len(history[Daemon]) - Len(history'[Daemon]))
       ELSE /\ ev' = NoEv
            /\ UNCHANGED <<history, histDoc>>
    /\ dirty' = FALSE
    /\ dpc' = "poll"
    /\ tog' = NoTog
    /\ UNCHANGED <<pinDoc, clipboard, pinned, current, last_hash, cliVars, budget,
                   exit_code, observed>>
    /\ UNCHANGED imageVars
    /\ UNCHANGED toolVars

\* KeyboardInterrupt raised in the loop
daemon_interrupt ==
    /\ dpc \in {"poll", "integrate", "flush", "flush_fallback"}
    /\ dpc' = "final_save"
    /\ current' = None
    /\ tog' = NoTog
    /\ UNCHANGED <<docVars, clipboard, history, pinned, last_hash, dirty,
                   cliVars, ev, budget, exit_code, observed>>
    /\ UNCHANGED imageVars
    /\ UNCHANGED toolVars

\* mutant: the except branch calls save() where it should call
\* save_history_only()
daemon_final_save_FullSave ==
    /\ dpc = "final_save"
    /\ history' = [history EXCEPT ![Daemon] = TrimHistory(@)]
    /\ histDoc' = save_clips_to_file(history'[Daemon])
    /\ pinDoc' = save_clips_to_file(pinned[Daemon])
    /\ ev' = Event("save_history_only", ev.clip, ev.inPinned, ev.pos,
                   Len(history[Daemon]) - Len(history'[Daemon]))
    /\ dpc' = "exit"
    /\ tog' = NoTog
    /\ UNCHANGED <<clipboard, pinned, current, last_hash, dirty,
                   cliVars, budget, exit_code, observed>>
    /\ UNCHANGED imageVars
    /\ UNCHANGED toolVars

\* mutant: the except branch returns without saving
daemon_final_save_Skips ==
    /\ dpc = "final_save"
    /\ ev' = NoEv
    /\ dpc' = "exit"
    /\ tog' = NoTog
    /\ UNCHANGED <<docVars, clipboard, history, pinned, current, last_hash,
                   dirty, cliVars, budget, exit_code, observed>>
    /\ UNCHANGED imageVars
    /\ UNCHANGED toolVars

\* the except KeyboardInterrupt branch: manager.save_history_only()
daemon_final_save ==
    /\ dpc = "final_save"
    /\ history' = [history EXCEPT ![Daemon] = TrimHistory(@)]
    /\ histDoc' = save_clips_to_file(history'[Daemon])
    /\ ev' = Event("save_history_only", ev.clip, ev.inPinned, ev.pos,
                   Len(history[Daemon]) - Len(history'[Daemon]))
    /\ dpc' = "exit"
    /\ tog' = NoTog
    /\ UNCHANGED <<pinDoc, clipboard, pinned, current, last_hash, dirty,
                   cliVars, budget, exit_code, observed>>
    /\ UNCHANGED imageVars
    /\ UNCHANGED toolVars

\* daemon_loop returns and the process ends
daemon_exit ==
    /\ dpc = "exit"
    /\ Exited(Daemon)
    /\ exit_code' = [exit_code EXCEPT ![Daemon] = ExitStatus(0)]
    /\ observed' = None
    /\ last_hash' = None
    /\ dirty' = FALSE
    /\ dpc' = "stopped"
    /\ ev' = NoEv
    /\ tog' = NoTog
    /\ UNCHANGED <<docVars, clipboard, current, cliVars, budget>>
    /\ UNCHANGED imageVars
    /\ UNCHANGED toolVars

\* ------------------------------------------------------ foreground command
Commands == {"select", "pin", "clear"}

\* main, command cmd: manager = ClipboardManager(), then the self.reload()
\* that opens select_clip, pin_menu and clear_history
cli_launch(cmd) ==
    /\ cpc = "idle"
    /\ budget.commands < MaxCommands
    /\ budget' = [budget EXCEPT !.commands = @ + 1]
    /\ command' = cmd
    /\ deleted' = {}
    /\ imageDir' = imageDir
    /\ sel' = None
    /\ picked' = None
    /\ ~load_raises(histDoc) /\ ~load_raises(pinDoc)
    /\ Reloaded(Cli)
    /\ exit_code' = [exit_code EXCEPT ![Cli] = None]
    /\ cpc' = IF cmd = "clear" THEN "clear" ELSE "menu"
    /\ ev' = NoEv
    /\ tog' = IF cmd = "pin" THEN tog ELSE NoTog
    /\ UNCHANGED <<docVars, clipboard, daemonVars, observed>>
    /\ UNCHANGED toolVars

\* _restore_clipboard: what the clipboard holds afterwards;
\* copy_image_to_clipboard returns when the file of the path does not exist
_restore_clipboard(clip, cb, files) ==
    IF clip.type = "text" /\ clip.content # None
    THEN [kind |-> "text", data |-> clip.content]
    ELSE IF clip.type = "image" /\ clip.path # None /\ clip.path \in files
    THEN [kind |-> "image", data |-> FileBytes(clip.path)]
    ELSE cb

\* ------------------------------------------------------------ menu front-end
\* get_preview of a Text clip: the content on one line, cut to PREVIEW_MAX
\* characters and followed by an ellipsis when it is longer. Texts 1 and 2
\* are longer than PREVIEW_MAX and have the same first PREVIEW_MAX
\* characters; every other text is shorter than PREVIEW_MAX
get_preview(clip) ==
    IF clip.type = "text"
    THEN IF clip.content = None THEN [chars |-> 0, cut |-> FALSE]
         ELSE IF clip.content.str <= 2 /\ NumTexts >= 2
              THEN [chars |-> 1, cut |-> TRUE]
              ELSE [chars |-> clip.content.str, cut |-> FALSE]
    ELSE [chars |-> 0, cut |-> FALSE]

\* mutant: the label is the preview alone, without the "[P{i}]" / "[H{i}]"
\* that numbers it within its group
Label_WithoutIndex(group, i, clip) ==
    [group |-> group, index |-> 0,
     text |-> IF clip.type = "image" /\ clip.path # None
              THEN [type |-> "PNG", path |-> clip.path]
              ELSE get_preview(clip)]

\* the label of entry i of a group: "[P{i}] " or "[H{i}] ", then the type
\* and the path of an Image clip, the preview of any other clip
Label(group, i, clip) ==
    [group |-> group, index |-> i,
     text |-> IF clip.type = "image" /\ clip.path # None
              THEN [type |-> "PNG", path |-> clip.path]
              ELSE get_preview(clip)]

\* the (label, clip) tuples of one group, numbered from 1
Entries(group, lst) ==
    [i \in 1..Len(lst) |-> [label |-> Label(group, i, lst[i]), clip |-> lst[i]]]

Labels(entries) == [i \in 1..Len(entries) |-> entries[i].label]

\* build_menu_entries: pinned entries first, then history
build_menu_entries(m) == Entries("P", pinned[m]) \o Entries("H", history[m])

\* the empty string, as a line of the menu and as the output of dmenu
EmptyString == [empty |-> TRUE]

HeaderPinned == [header |-> "=== PINNED (select to unpin) ==="]
HeaderHistory == [header |-> "=== HISTORY (select to pin) ==="]

\* pin_menu: the lines joined into menu_text
pin_menu_lines(m) ==
    (IF pinned[m] # <<>>
     THEN <<HeaderPinned>> \o Labels(Entries("P", pinned[m])) \o <<EmptyString>>
     ELSE <<>>)
    \o (IF history[m] # <<>>
        THEN <<HeaderHistory>> \o Labels(Entries("H", history[m]))
        ELSE <<>>)

\* the lines the foreground command hands to dmenu
MenuLines(m, cmd) ==
    IF cmd = "select" THEN Labels(build_menu_entries(m)) ELSE pin_menu_lines(m)

\* text typed into dmenu that is none of the lines
TypedText == [typed |-> TRUE]

\* what the dmenu process does with the lines it is given: Return on line n
\* prints it and exits 0; Ctrl-Return on line n prints it and Escape then
\* exits 1; Escape alone prints nothing and exits 1; Shift-Return prints the
\* typed text; the process is still running after 10 seconds; there is no
\* dmenu to execute
DmenuResults(lines) ==
    {[kind |-> "selected", line |-> n, stdout |-> lines[n], returncode |-> 0] :
        n \in 1..Len(lines)}
    \cup {[kind |-> "confirmed_escaped", line |-> n, stdout |-> lines[n],
           returncode |-> 1] : n \in 1..Len(lines)}
    \cup {[kind |-> "escaped", line |-> 0, stdout |-> EmptyString, returncode |-> 1],
          [kind |-> "typed", line |-> 0, stdout |-> TypedText, returncode |-> 0],
          [kind |-> "timeout", line |-> 0, stdout |-> EmptyString, returncode |-> 0],
          [kind |-> "missing", line |-> 0, stdout |-> EmptyString, returncode |-> 0]}

\* run_dmenu: stdout without its trailing newline, the empty string when
\* subprocess.run raises TimeoutExpired or FileNotFoundError; the exit
\* status is not read (check=False)
run_dmenu(r) ==
    IF r.kind \in {"timeout", "missing"} THEN EmptyString ELSE r.stdout

\* the loop `for label, clip in entries: if label == sel`: the position of
\* the first entry with that label, 0 when the loop ends without one
FirstWithLabel(entries, s) ==
    IF \E i \in 1..Len(entries) : entries[i].label = s
    THEN CHOOSE i \in 1..Len(entries) :
            /\ entries[i].label = s
            /\ \A j \in 1..(i - 1) : entries[j].label # s
    ELSE 0

\* what picked holds once run_dmenu has returned: the group and the clip of
\* the entry found, and whether there was a dmenu to execute
Picked(group, clip, r) ==
    [group |-> group, clip |-> clip,
     dmenu |-> IF r.kind = "missing" THEN "missing" ELSE "ran"]

\* select_clip / pin_menu after the reload: sel = run_dmenu(menu_text, ...)
cli_run_dmenu ==
    /\ cpc = "menu"
    /\ MenuLines(Cli, command) # <<>>
    /\ \E r \in DmenuResults(MenuLines(Cli, command)) : sel' = r
    /\ cpc' = "resolve"
    /\ UNCHANGED <<docVars, clipboard, history, pinned, daemonVars, command,
                   picked, ev, tog, budget, exit_code, observed>>
    /\ UNCHANGED imageVars
    /\ UNCHANGED toolVars

\* select_clip: no entries, an empty selection or a selection that is no
\* label returns; a selected label restores its clip
cli_select ==
    /\ command = "select"
    /\ \/ /\ cpc = "menu"
          /\ build_menu_entries(Cli) = <<>>
          /\ UNCHANGED <<clipboard, picked>>
       \/ /\ cpc = "resolve"
          /\ LET entries == build_menu_entries(Cli)
                 k == FirstWithLabel(entries, run_dmenu(sel))
             IN  IF run_dmenu(sel) = EmptyString \/ k = 0
                 THEN /\ clipboard' = clipboard
                      /\ picked' = Picked("none", None, sel)
                 ELSE /\ clipboard' = _restore_clipboard(entries[k].clip, clipboard, imageDir)
                      /\ picked' = Picked(entries[k].label.group, entries[k].clip, sel)
    /\ sel' = None
    /\ cpc' = "done"
    /\ ev' = Event("select", None, FALSE, 0, 0)
    /\ UNCHANGED <<docVars, history, pinned, daemonVars, command, tog, budget,
                   exit_code, observed>>
    /\ UNCHANGED imageVars
    /\ UNCHANGED toolVars

\* whether pin_menu returns at `if not sel or sel.startswith("===")`
IsCancel(s) == s = EmptyString \/ s \in {HeaderPinned, HeaderHistory}

\* pin_menu after the reload, no entry chosen: nothing to show, dmenu
\* cancelled, a header line selected, or a selection that is no label
cli_pin_cancel ==
    /\ command = "pin"
    /\ \/ /\ cpc = "menu"
          /\ pin_menu_lines(Cli) = <<>>
          /\ picked' = picked
       \/ /\ cpc = "resolve"
          /\ \/ IsCancel(run_dmenu(sel))
             \/ FirstWithLabel(build_menu_entries(Cli), run_dmenu(sel)) = 0
          /\ picked' = Picked("none", None, sel)
    /\ sel' = None
    /\ cpc' = "done"
    /\ ev' = NoEv
    /\ tog' = NoTog
    /\ UNCHANGED <<docVars, clipboard, history, pinned, daemonVars, command,
                   budget, exit_code, observed>>
    /\ UNCHANGED imageVars
    /\ UNCHANGED toolVars

\* membership of clip in <<history, pinned>> of the foreground store
Membership(clip) == <<InList(clip, history[Cli]), InList(clip, pinned[Cli])>>

Toggled(clip) ==
    IF tog.n >= 1 /\ DuplicateOf(clip, tog.clip)
    THEN [n |-> 2, clip |-> clip, pre1 |-> tog.pre2, pre2 |-> Membership(clip)]
    ELSE [n |-> 1, clip |-> clip, pre1 |-> Membership(clip), pre2 |-> Membership(clip)]

\* pin_menu: sel is a label that starts with "[P", its clip is unpinned
cli_unpin ==
    /\ cpc = "resolve"
    /\ command = "pin"
    /\ ~IsCancel(run_dmenu(sel))
    /\ LET entries == build_menu_entries(Cli)
           k == FirstWithLabel(entries, run_dmenu(sel))
       IN  /\ k # 0
           /\ entries[k].label.group = "P"
           /\ LET clip == entries[k].clip
                  r == Unpin(history[Cli], pinned[Cli], clip)
              IN  /\ history' = [history EXCEPT ![Cli] = r[1]]
                  /\ pinned' = [pinned EXCEPT ![Cli] = r[2]]
                  /\ picked' = Picked("P", clip, sel)
                  /\ ev' = Event("unpin", clip, TRUE, PositionIn(clip, history[Cli]), 0)
                  /\ tog' = Toggled(clip)
    /\ sel' = None
    /\ cpc' = "save_history"
    /\ UNCHANGED <<docVars, clipboard, daemonVars, command, budget,
                   exit_code, observed>>
    /\ UNCHANGED imageVars
    /\ UNCHANGED toolVars

\* pin_menu: sel is any other label, its clip is pinned
cli_pin ==
    /\ cpc = "resolve"
    /\ command = "pin"
    /\ ~IsCancel(run_dmenu(sel))
    /\ LET entries == build_menu_entries(Cli)
           k == FirstWithLabel(entries, run_dmenu(sel))
       IN  /\ k # 0
           /\ entries[k].label.group # "P"
           /\ LET clip == entries[k].clip
                  r == Pin(history[Cli], pinned[Cli], clip)
              IN  /\ history' = [history EXCEPT ![Cli] = r[1]]
                  /\ pinned' = [pinned EXCEPT ![Cli] = r[2]]
                  /\ picked' = Picked("H", clip, sel)
                  /\ ev' = Event("pin", clip, InList(clip, pinned[Cli]),
                                 PositionIn(clip, history[Cli]), 0)
                  /\ tog' = Toggled(clip)
    /\ sel' = None
    /\ cpc' = "save_history"
    /\ UNCHANGED <<docVars, clipboard, daemonVars, command, budget,
                   exit_code, observed>>
    /\ UNCHANGED imageVars
    /\ UNCHANGED toolVars

\* clear_history after the reload: self.history = []
cli_clear ==
    /\ cpc = "clear"
    /\ LET r == ClearHistory(history[Cli], pinned[Cli]) IN
       /\ history' = [history EXCEPT ![Cli] = r[1]]
       /\ pinned' = [pinned EXCEPT ![Cli] = r[2]]
       /\ ev' = Event("clear", None, pinned[Cli] # <<>>, Len(history[Cli]), 0)
    /\ tog' = NoTog
    /\ cpc' = "save_history"
    /\ UNCHANGED <<docVars, clipboard, daemonVars, command, sel, picked, budget,
                   exit_code, observed>>
    /\ UNCHANGED imageVars
    /\ UNCHANGED toolVars

\* save: the trimming loop and save_clips_to_file(HISTORY_PATH, ...)
cli_save_history ==
    /\ cpc = "save_history"
    /\ history' = [history EXCEPT ![Cli] = TrimHistory(@)]
    /\ histDoc' = save_clips_to_file(history'[Cli])
    /\ ev' = [ev EXCEPT !.dropped = Len(history[Cli]) - Len(history'[Cli])]
    /\ cpc' = "save_pinned"
    /\ UNCHANGED <<pinDoc, clipboard, pinned, daemonVars, command, sel, picked,
                   tog, budget, exit_code, observed>>
    /\ UNCHANGED imageVars
    /\ UNCHANGED toolVars

\* what cleanup_old_images at the end of save() of the command does
Cleanup ==
    /\ imageDir' = cleanup_old_images(KeepPaths(history[Cli], pinned[Cli]), imageDir)
    /\ deleted' = imageDir \ imageDir'

\* save: save_clips_to_file(PIN_PATH, self.pinned) and the cleanup of the
\* images; the handler returns
cli_save_pinned ==
    /\ cpc = "save_pinned"
    /\ pinDoc' = save_clips_to_file(pinned[Cli])
    /\ Cleanup
    /\ cpc' = "done"
    /\ UNCHANGED <<histDoc, clipboard, history, pinned, daemonVars, command,
                   sel, picked, ev, tog, budget, exit_code, observed>>
    /\ UNCHANGED toolVars

\* main returns and the process ends
cli_exit ==
    /\ cpc = "done"
    /\ Exited(Cli)
    /\ exit_code' = [exit_code EXCEPT ![Cli] = ExitStatus(0)]
    /\ cpc' = "idle"
    /\ command' = "none"
    /\ deleted' = {}
    /\ imageDir' = imageDir
    /\ sel' = None
    /\ picked' = None
    /\ ev' = NoEv
    /\ UNCHANGED <<docVars, clipboard, daemonVars, tog, budget, observed>>
    /\ UNCHANGED toolVars

\* ----------------------------------------------------------------- faults
\* another application puts bytes that are not UTF-8 on the clipboard
user_copy_undecodable ==
    /\ clipboard # UndecodableBytes
    /\ budget.copies < MaxCopies
    /\ budget' = [budget EXCEPT !.copies = @ + 1]
    /\ clipboard' = UndecodableBytes
    /\ ev' = NoEv
    /\ tog' = NoTog
    /\ UNCHANGED <<docVars, history, pinned, daemonVars, cliVars,
                   exit_code, observed>>
    /\ UNCHANGED imageVars
    /\ UNCHANGED toolVars

\* a document is replaced from outside the program by a JSON value that is
\* not an array, or by bytes that are not UTF-8
DamagedFiles == {JsonObject, UndecodableFile}

file_damaged(path, doc) ==
    /\ Fault
    /\ \/ path = "history" /\ histDoc # doc /\ histDoc' = doc /\ pinDoc' = pinDoc
       \/ path = "pinned" /\ pinDoc # doc /\ pinDoc' = doc /\ histDoc' = histDoc
    /\ ev' = NoEv
    /\ tog' = NoTog
    /\ UNCHANGED <<clipboard, history, pinned, daemonVars, cliVars,
                   exit_code, observed>>
    /\ UNCHANGED imageVars
    /\ UNCHANGED toolVars

\* main, command "daemon": ClipboardManager() raises out of
\* load_clips_from_file and the process ends before daemon_loop
daemon_start_raises ==
    /\ dpc = "stopped"
    /\ budget.runs < MaxDaemonRuns
    /\ budget' = [budget EXCEPT !.runs = @ + 1]
    /\ load_raises(histDoc) \/ load_raises(pinDoc)
    /\ Crashed(Daemon)
    /\ ev' = NoEv
    /\ tog' = NoTog
    /\ UNCHANGED <<docVars, clipboard, daemonVars, cliVars, observed>>
    /\ UNCHANGED imageVars
    /\ UNCHANGED toolVars

\* daemon_loop: get_clipboard_content() raises UnicodeDecodeError; only
\* KeyboardInterrupt is caught, the process ends without a final save
daemon_poll_raises ==
    /\ dpc = "poll"
    /\ get_clipboard_raises(clipboard)
    /\ Crashed(Daemon)
    /\ dpc' = "stopped"
    /\ current' = None
    /\ last_hash' = None
    /\ dirty' = FALSE
    /\ observed' = None
    /\ ev' = NoEv
    /\ tog' = NoTog
    /\ UNCHANGED <<docVars, clipboard, cliVars, budget>>
    /\ UNCHANGED imageVars
    /\ UNCHANGED toolVars

\* daemon_loop: the xclip calls of get_clipboard_content time out or fail
\* with OSError, and it returns None
daemon_poll_timeout ==
    /\ dpc = "poll"
    /\ Fault
    /\ current' = None
    /\ dpc' = "flush"
    /\ ev' = NoEv
    /\ tog' = NoTog
    /\ UNCHANGED <<docVars, clipboard, history, pinned, last_hash, dirty,
                   cliVars, exit_code, observed>>
    /\ UNCHANGED imageVars
    /\ UNCHANGED toolVars

\* daemon_loop: the reload of pinned raises out of load_clips_from_file
daemon_integrate_raises ==
    /\ dpc = "integrate"
    /\ load_raises(pinDoc)
    /\ Crashed(Daemon)
    /\ dpc' = "stopped"
    /\ current' = None
    /\ last_hash' = None
    /\ dirty' = FALSE
    /\ observed' = None
    /\ ev' = NoEv
    /\ tog' = NoTog
    /\ UNCHANGED <<docVars, clipboard, cliVars, budget>>
    /\ UNCHANGED imageVars
    /\ UNCHANGED toolVars

\* main, any command but "daemon": ClipboardManager() raises out of
\* load_clips_from_file
cli_launch_raises ==
    /\ cpc = "idle"
    /\ budget.commands < MaxCommands
    /\ budget' = [budget EXCEPT !.commands = @ + 1]
    /\ load_raises(histDoc) \/ load_raises(pinDoc)
    /\ Crashed(Cli)
    /\ ev' = NoEv
    /\ tog' = NoTog
    /\ UNCHANGED <<docVars, clipboard, daemonVars, cliVars, observed>>
    /\ UNCHANGED imageVars
    /\ UNCHANGED toolVars

\* mutant: the OSError of the write is not caught and ends the daemon
daemon_save_oserror_Raises ==
    /\ dpc \in {"flush", "final_save"}
    /\ dpc = "flush" => dirty
    /\ Fault
    /\ Crashed(Daemon)
    /\ dpc' = "stopped"
    /\ current' = None
    /\ last_hash' = None
    /\ dirty' = FALSE
    /\ observed' = None
    /\ ev' = NoEv
    /\ tog' = NoTog
    /\ UNCHANGED <<docVars, clipboard, cliVars>>
    /\ UNCHANGED imageVars
    /\ UNCHANGED toolVars

\* save_history_only of the daemon when the atomic path of
\* atomic_write_text raises OSError (mkstemp, write or os.replace): the
\* fallback either cannot open the target, which is then left as it is, or
\* opens it with mode "w", which truncates it in place
daemon_save_oserror ==
    /\ dpc \in {"flush", "final_save"}
    /\ dpc = "flush" => dirty
    /\ Fault
    /\ history' = [history EXCEPT ![Daemon] = TrimHistory(@)]
    /\ ev' = Event("save_history_only", ev.clip, ev.inPinned, ev.pos,
                   Len(history[Daemon]) - Len(history'[Daemon]))
    /\ \/ /\ histDoc' = histDoc
          /\ dpc' = IF dpc = "flush" THEN "poll" ELSE "exit"
          /\ dirty' = IF dpc = "flush" THEN FALSE ELSE dirty
       \/ /\ histDoc' = PartialFile
          /\ dpc' = IF dpc = "flush" THEN "flush_fallback" ELSE "final_fallback"
          /\ dirty' = dirty
    /\ tog' = NoTog
    /\ UNCHANGED <<pinDoc, clipboard, pinned, current, last_hash, cliVars,
                   exit_code, observed>>
    /\ UNCHANGED imageVars
    /\ UNCHANGED toolVars

\* the fallback of atomic_write_text in the daemon: fh.write(data) and the
\* close either complete the document or raise OSError, which is passed
\* over; a file that another process has replaced meanwhile is not the one
\* this write goes to
daemon_fallback_write ==
    /\ dpc \in {"flush_fallback", "final_fallback"}
    /\ \/ histDoc' = IF histDoc = PartialFile
                     THEN save_clips_to_file(history[Daemon])
                     ELSE histDoc
       \/ histDoc' = histDoc
    /\ dpc' = IF dpc = "flush_fallback" THEN "poll" ELSE "exit"
    /\ dirty' = IF dpc = "flush_fallback" THEN FALSE ELSE dirty
    /\ tog' = NoTog
    /\ UNCHANGED <<pinDoc, clipboard, history, pinned, current, last_hash,
                   cliVars, exit_code, observed, ev, budget>>
    /\ UNCHANGED imageVars
    /\ UNCHANGED toolVars

\* save() of a foreground command when the atomic path of one of its two
\* writes raises OSError
cli_save_oserror ==
    /\ cpc \in {"save_history", "save_pinned"}
    /\ Fault
    /\ IF cpc = "save_history"
       THEN /\ history' = [history EXCEPT ![Cli] = TrimHistory(@)]
            /\ ev' = [ev EXCEPT !.dropped = Len(history[Cli]) - Len(history'[Cli])]
            /\ pinDoc' = pinDoc
            /\ \/ histDoc' = histDoc /\ cpc' = "save_pinned"
               \/ histDoc' = PartialFile /\ cpc' = "save_history_fallback"
       ELSE /\ UNCHANGED <<history, ev, histDoc>>
            /\ \/ pinDoc' = pinDoc /\ cpc' = "done"
               \/ pinDoc' = PartialFile /\ cpc' = "save_pinned_fallback"
    /\ IF cpc' = "done" THEN Cleanup ELSE UNCHANGED imageVars
    /\ UNCHANGED <<clipboard, pinned, daemonVars, command, sel, picked, tog,
                   exit_code, observed>>
    /\ UNCHANGED toolVars

\* the fallback of atomic_write_text in a foreground command
cli_fallback_write ==
    /\ cpc \in {"save_history_fallback", "save_pinned_fallback"}
    /\ IF cpc = "save_history_fallback"
       THEN /\ \/ histDoc' = IF histDoc = PartialFile
                             THEN save_clips_to_file(history[Cli])
                             ELSE histDoc
               \/ histDoc' = histDoc
            /\ pinDoc' = pinDoc
            /\ cpc' = "save_pinned"
       ELSE /\ \/ pinDoc' = IF pinDoc = PartialFile
                            THEN save_clips_to_file(pinned[Cli])
                            ELSE pinDoc
               \/ pinDoc' = pinDoc
            /\ histDoc' = histDoc
            /\ cpc' = "done"
    /\ IF cpc' = "done" THEN Cleanup ELSE UNCHANGED imageVars
    /\ UNCHANGED <<clipboard, history, pinned, daemonVars, command, sel, picked,
                   exit_code, observed, ev, tog, budget>>
    /\ UNCHANGED toolVars

\* --------------------------------------------------------- specifications
\* the daemon and a foreground command run concurrently on the same files
Events == budget.copies + budget.commands + budget.runs + budget.faults

Next ==
    \/ \E cb \in ClipboardContents : Events < MaxEvents /\ user_copy(cb)
    \/ Events < MaxEvents /\ daemon_start
    \/ daemon_poll
    \/ daemon_integrate
    \/ daemon_flush
    \/ daemon_interrupt
    \/ daemon_final_save
    \/ daemon_exit
    \/ \E cmd \in Commands : Events < MaxEvents /\ cli_launch(cmd)
    \/ cli_run_dmenu
    \/ cli_select
    \/ cli_pin_cancel
    \/ cli_unpin
    \/ cli_pin
    \/ cli_clear
    \/ cli_save_history
    \/ cli_save_pinned
    \/ cli_exit

Spec == Init /\ [][Next]_vars

\* one process at a time: a foreground command is launched only while no
\* daemon runs, and the daemon is started only between two commands
NextSeq ==
    \/ \E cb \in ClipboardContents : Events < MaxSeqEvents /\ user_copy(cb)
    \/ cpc = "idle" /\ Events < MaxSeqEvents /\ daemon_start
    \/ daemon_poll
    \/ daemon_integrate
    \/ daemon_flush
    \/ daemon_interrupt
    \/ daemon_final_save
    \/ daemon_exit
    \/ \E cmd \in Commands :
          dpc = "stopped" /\ Events < MaxSeqEvents /\ cli_launch(cmd)
    \/ cli_run_dmenu
    \/ cli_select
    \/ cli_pin_cancel
    \/ cli_unpin
    \/ cli_pin
    \/ cli_clear
    \/ cli_save_history
    \/ cli_save_pinned
    \/ cli_exit

SpecSeq == Init /\ [][NextSeq]_vars

\* the concurrent specification with the faults of the environment:
\* undecodable clipboard content, damaged documents, clipboard reads that
\* fail and writes that raise OSError
NextIO ==
    \/ Next
    \/ Events < MaxEvents /\ user_copy_undecodable
    \/ \E path \in {"history", "pinned"}, doc \in DamagedFiles :
          Events < MaxEvents /\ file_damaged(path, doc)
    \/ Events < MaxEvents /\ daemon_start_raises
    \/ daemon_poll_raises
    \/ Events < MaxEvents /\ daemon_poll_timeout
    \/ daemon_integrate_raises
    \/ Events < MaxEvents /\ cli_launch_raises
    \/ Events < MaxEvents /\ daemon_save_oserror
    \/ daemon_fallback_write
    \/ Events < MaxEvents /\ cli_save_oserror
    \/ cli_fallback_write

SpecIO == Init /\ [][NextIO]_vars

\* ------------------------------------------------- vocabulary of the claims
Identities(lst) == {Identity(lst[i]) : i \in 1..Len(lst)}

CountOf(kind, lst) == Cardinality({i \in 1..Len(lst) : lst[i].type = kind})

Capacity(kind) == IF kind = "text" THEN MAX_CLIPS ELSE MAX_IMAGE_CLIPS

WithinCapacity(lst) ==
    /\ CountOf("text", lst) <= MAX_CLIPS
    /\ CountOf("image", lst) <= MAX_IMAGE_CLIPS

NoDuplicateIdentity(lst) ==
    \A i, j \in 1..Len(lst) : i # j => Identity(lst[i]) # Identity(lst[j])

\* the entries of lst other than those with the identity of c, in order
Others(c, lst) == SelectSeq(lst, LAMBDA e : Identity(e) # Identity(c))

RECURSIVE Pick(_, _, _)
Pick(lst, keep, i) ==
    IF i > Len(lst) THEN <<>>
    ELSE (IF i \in keep THEN <<lst[i]>> ELSE <<>>) \o Pick(lst, keep, i + 1)

\* lst, most recent first, restricted to the newest MAX_CLIPS Text entries
\* and the newest MAX_IMAGE_CLIPS Image entries
NewestOfEachKind(lst) ==
    Pick(lst,
         {i \in 1..Len(lst) :
             Cardinality({j \in 1..(i - 1) : lst[j].type = lst[i].type})
                 < Capacity(lst[i].type)},
         1)

\* the step in which the daemon's add_clip runs, and the clip it is given
AddStep == dpc = "integrate" /\ dpc' = "flush"

\* the step in which the daemon saves the history after an add
SaveAfterAddStep ==
    /\ dirty
    /\ \/ dpc = "flush" /\ dpc' = "poll"
       \/ dpc = "final_save" /\ dpc' = "exit"

C2_HistoryPinnedDisjoint ==
    \A m \in Managers : Identities(history[m]) \cap Identities(pinned[m]) = {}

\* an add of a pinned clip into a store whose history is not empty
C2_Witness ==
    /\ ev.op = "add"
    /\ ev.inPinned
    /\ history[Daemon] # <<>>

\* C3: the history document and the pinned document never hold the same
\* clip identity at the same time, under every interleaving of the daemon
\* with a foreground command.
C3_DocumentsDisjoint ==
    Identities(load_clips_from_file(histDoc))
        \cap Identities(load_clips_from_file(pinDoc)) = {}

\* C4: history holds no two entries with the same identity, and neither
\* does pinned.
C4_NoDuplicates ==
    \A m \in Managers :
        NoDuplicateIdentity(history[m]) /\ NoDuplicateIdentity(pinned[m])

\* an add of a clip that history already held, next to a pinned clip
C4_Witness ==
    /\ ev.op = "add"
    /\ ev.pos >= 1
    /\ pinned[Daemon] # <<>>

\* C5: an add of a clip whose identity is pinned leaves history and pinned
\* as they were, and history does not hold that identity afterwards.
C5_AddOfPinnedIsNoOp ==
    [][(AddStep /\ Identity(current) \in Identities(pinned'[Daemon]))
         => /\ history'[Daemon] = history[Daemon]
            /\ pinned'[Daemon] = pinned[Daemon]
            /\ Identity(current) \notin Identities(history'[Daemon])]_vars

\* a pinned clip was copied again and the add that followed was suppressed
C5_Witness ==
    /\ ev.op = "add"
    /\ ev.inPinned
    /\ ev.pos = 0
    /\ Identity(ev.clip) \in Identities(pinned[Daemon])

C8_ToggleTwiceRestoresMembership ==
    tog.n = 2 =>
        LET c == tog.clip
            docHistory == load_clips_from_file(histDoc)
            docPinned == load_clips_from_file(pinDoc)
        IN  /\ cpc \in {"save_history", "save_pinned", "done"} =>
                /\ <<Identity(c) \in Identities(history[Cli]),
                     Identity(c) \in Identities(pinned[Cli])>> = tog.pre1
                /\ Identity(c) \in Identities(history[Cli])
                     => Identity(Head(history[Cli])) = Identity(c)
            /\ cpc \in {"done", "idle"} =>
                /\ <<Identity(c) \in Identities(docHistory),
                     Identity(c) \in Identities(docPinned)>> = tog.pre1
                /\ Identity(c) \in Identities(docHistory)
                     => Identity(Head(docHistory)) = Identity(c)

\* a clip pinned out of a history of several clips and then unpinned again
C8_Witness ==
    /\ tog.n = 2
    /\ cpc = "done"
    /\ tog.pre1 = <<TRUE, FALSE>>
    /\ ev.op = "unpin"
    /\ Len(history[Cli]) >= 2

\* C9: clear_history leaves history empty and leaves pinned, in memory and
\* in the pinned document, with the entries it had before the call, in the
\* same order.
C9_ClearKeepsPinned ==
    [][command' = "clear" =>
         /\ load_clips_from_file(pinDoc') = load_clips_from_file(pinDoc)
         /\ pinned'[Cli] = load_clips_from_file(pinDoc)
         /\ cpc' \in {"save_history", "save_pinned", "done"} => history'[Cli] = <<>>
         /\ cpc' \in {"save_pinned", "done"} /\ cpc # cpc' /\ cpc = "save_history"
              => histDoc' = JsonArray(<<>>)]_vars

\* clear_history has returned on a store that held pinned clips and history
C9_Witness ==
    /\ command = "clear"
    /\ cpc = "done"
    /\ ev.op = "clear"
    /\ ev.pos >= 1
    /\ load_clips_from_file(pinDoc) # <<>>
    /\ pinned[Cli] # <<>>

\* C10: a clip leaves pinned only through an explicit unpin of that clip:
\* the pinned document loses an identity only in the save of an unpin of it,
\* the store of a foreground command loses one only in that unpin, and the
\* daemon's pinned only ever becomes what the pinned document holds.
C10_PinnedLeavesOnlyByUnpin ==
    [][/\ \A id \in Identities(load_clips_from_file(pinDoc)) :
             \/ id \in Identities(load_clips_from_file(pinDoc'))
             \/ /\ cpc = "save_pinned"
                /\ command = "pin"
                /\ picked # None
                /\ picked.group = "P"
                /\ Identity(picked.clip) = id
       /\ cpc # "idle" /\ cpc' # "idle" =>
             \A id \in Identities(pinned[Cli]) :
                \/ id \in Identities(pinned'[Cli])
                \/ /\ cpc = "resolve"
                   /\ command = "pin"
                   /\ picked' # None
                   /\ picked'.group = "P"
                   /\ Identity(picked'.clip) = id
       /\ pinned'[Daemon] # pinned[Daemon] =>
             \/ pinned'[Daemon] = load_clips_from_file(pinDoc)
             \/ dpc' = "stopped"]_vars

\* an unpin has been saved while the daemon runs
C10_Witness ==
    /\ cpc = "done"
    /\ command = "pin"
    /\ picked # None
    /\ picked.group = "P"
    /\ Identity(picked.clip) \notin Identities(load_clips_from_file(pinDoc))
    /\ dpc \notin {"stopped", "exit"}

\* C11: after any sequence of pin actions pinned holds at most MAX_PINNED
\* entries, in the store and in the pinned document.
C11_PinnedWithinCapacity ==
    /\ \A m \in Managers : Len(pinned[m]) <= MAX_PINNED
    /\ Len(load_clips_from_file(pinDoc)) <= MAX_PINNED

\* C12: no step of the daemon (start, poll, integration, dirty save, final
\* save on interrupt, exit) changes the pinned document.
C12_DaemonNeverWritesPinned ==
    [][dpc' # dpc => pinDoc' = pinDoc]_vars

\* the daemon has made its final save while the pinned document holds a pin
\* that a foreground command persisted after the daemon last read it
C12_Witness ==
    /\ dpc = "exit"
    /\ ev.op = "save_history_only"
    /\ load_clips_from_file(pinDoc) # <<>>
    /\ pinned[Daemon] = <<>>

\* C13: every writer of the history document reloads it right before it
\* mutates: a foreground command starts from the document as it reads it at
\* its reload, and the history the daemon's add leaves is the add applied to
\* the document's content at that moment.
C13_WritersReloadHistory ==
    [][/\ (cpc = "idle" /\ cpc' # "idle")
            => history'[Cli] = load_clips_from_file(histDoc)
       /\ AddStep
            => history'[Daemon] =
                  add_clip(load_clips_from_file(histDoc), pinned'[Daemon], current)]_vars

\* C14 (as stated): no write ever truncates its target in place, also when
\* a step of the atomic path fails: neither document is ever partial.
C14_NeverPartial ==
    /\ histDoc.file # "partial"
    /\ pinDoc.file # "partial"

\* C14 (amended): a write whose atomic path does not raise replaces its
\* target in one step by the complete new document; a document is truncated
\* in place only by the fallback of a write whose atomic path raised
\* OSError, and it is then partial until that fallback completes it.
C14_AtomicUnlessOSError ==
    [][/\ (histDoc' # histDoc /\ budget'.faults = budget.faults)
            => histDoc'.file = "array"
       /\ (pinDoc' # pinDoc /\ budget'.faults = budget.faults)
            => pinDoc'.file = "array"
       /\ (histDoc'.file = "partial" /\ histDoc.file # "partial")
            => \/ dpc \in {"flush", "final_save"}
                    /\ dpc' \in {"flush_fallback", "final_fallback"}
               \/ cpc = "save_history" /\ cpc' = "save_history_fallback"
       /\ (pinDoc'.file = "partial" /\ pinDoc.file # "partial")
            => cpc = "save_pinned" /\ cpc' = "save_pinned_fallback"]_vars

\* a foreground command has read the history document while the fallback
\* write of the daemon had truncated it, and holds an empty history
C14_Witness ==
    /\ dpc = "flush_fallback"
    /\ histDoc.file = "partial"
    /\ history[Daemon] # <<>>
    /\ cpc \in {"menu", "clear"}
    /\ history[Cli] = <<>>

\* C15: whatever step of a write raises OSError, the save returns: the
\* process goes on to the position after the write, nothing ends it, and its
\* history and pinned are what a save that succeeds leaves in memory.
C15_SaveNeverFailsVisibly ==
    [][/\ (/\ dpc \in {"flush", "flush_fallback", "final_save", "final_fallback"}
           /\ dpc' # dpc
           /\ dpc' # "final_save")
            => /\ dpc' \in {"poll", "exit", "flush_fallback", "final_fallback"}
               /\ exit_code'[Daemon] = exit_code[Daemon]
               /\ history'[Daemon] = TrimHistory(history[Daemon])
               /\ pinned'[Daemon] = pinned[Daemon]
       /\ (/\ cpc \in {"save_history", "save_history_fallback",
                       "save_pinned", "save_pinned_fallback"}
           /\ cpc' # cpc)
            => /\ cpc' \in {"save_history_fallback", "save_pinned",
                           "save_pinned_fallback", "done"}
               /\ exit_code'[Cli] = exit_code[Cli]
               /\ history'[Cli] = TrimHistory(history[Cli])
               /\ pinned'[Cli] = pinned[Cli]]_vars

\* the fallback write of the daemon failed too, and the daemon polls again
\* with its history in memory
C15_Witness ==
    /\ dpc = "poll"
    /\ histDoc.file = "partial"
    /\ history[Daemon] # <<>>
    /\ exit_code[Daemon] = None
    /\ budget.faults >= 1

\* C16: load of a document that is absent, partial, not decodable or not a
\* JSON array returns an empty list and never raises: the daemon start-up,
\* the reload of a foreground command and the reload of pinned in the loop
\* all proceed, with an empty list for such a document.
C16_LoadNeverRaises ==
    [][/\ budget'.runs # budget.runs
            => /\ dpc' = "poll"
               /\ (histDoc.file # "array") => (history'[Daemon] = <<>>)
               /\ (pinDoc.file # "array") => (pinned'[Daemon] = <<>>)
       /\ budget'.commands # budget.commands
            => /\ cpc' \in {"menu", "clear"}
               /\ (histDoc.file # "array") => (history'[Cli] = <<>>)
               /\ (pinDoc.file # "array") => (pinned'[Cli] = <<>>)
       /\ (dpc = "integrate" /\ dpc' \notin {"integrate", "final_save"})
            => /\ dpc' = "flush"
               /\ (pinDoc.file # "array") => (pinned'[Daemon] = <<>>)]_vars

C18_AddOncePerIdentity ==
    [][(dpc = "poll" /\ dpc' = "integrate")
         => /\ observed' = Identity(current')
            /\ observed = None \/ observed # Identity(current')]_vars

\* a tick has read the content that an earlier tick added, and skips the add
C18_Witness ==
    /\ dpc = "flush"
    /\ ~dirty
    /\ clipboard # None
    /\ observed = Identity(get_clipboard_content(clipboard))
    /\ last_hash = current_hash(get_clipboard_content(clipboard))
    /\ Identity(get_clipboard_content(clipboard)) \in Identities(history[Daemon])

\* the positions of the daemon inside the while loop of daemon_loop
LoopPositions == {"poll", "integrate", "flush", "flush_fallback"}

\* C19 (as stated): a clip that the daemon integrated right before the
\* interrupt is in the history document after the final save.
C19_IntegratedClipsPersisted ==
    [][(/\ dpc = "final_save" /\ dpc' = "exit"
        /\ ev.op = "add")
         => Identity(ev.clip) \in Identities(load_clips_from_file(histDoc'))]_vars

\* C19 (amended): an interrupt in any position of the loop leads to the
\* final save, that one save writes the history the daemon holds, trimmed to
\* the capacities, to the history document, and the daemon then stops with
\* exit status 0 without writing again; a clip whose add was suppressed
\* because it is pinned is not in that history.
C19_InterruptSavesOnceThenStops ==
    [][/\ (dpc \in LoopPositions /\ dpc' \notin LoopPositions)
            => /\ dpc' = "final_save"
               /\ history'[Daemon] = history[Daemon]
               /\ histDoc' = histDoc
       /\ (dpc = "final_save" /\ dpc' # dpc)
            => /\ dpc' = "exit"
               /\ history'[Daemon] = TrimHistory(history[Daemon])
               /\ histDoc' = save_clips_to_file(history'[Daemon])
               /\ load_clips_from_file(histDoc') = history'[Daemon]
       /\ (dpc = "exit" /\ dpc' # dpc)
            => /\ dpc' = "stopped"
               /\ exit_code'[Daemon] = ExitStatus(0)
               /\ histDoc' = histDoc
       /\ (dpc' = "stopped" /\ dpc # dpc') => dpc = "exit"]_vars

\* the interrupt came between an add and its save, and the final save has
\* put the added clip into the history document
C19_Witness ==
    /\ dpc = "exit"
    /\ dirty
    /\ ev.op = "save_history_only"
    /\ ev.clip # None
    /\ ~ev.inPinned
    /\ Identity(ev.clip) \in Identities(load_clips_from_file(histDoc))

\* C20: the daemon leaves its loop only through the interrupt: whatever a
\* clipboard read, the reload of pinned or a save does, every step out of a
\* position of the loop either stays in the loop or is the interrupt that
\* leads to the final save, and the process ends only after that save.
C20_StopsOnlyOnInterrupt ==
    [][/\ (dpc \in LoopPositions /\ dpc' \notin LoopPositions)
            => dpc' = "final_save"
       /\ (dpc' = "stopped" /\ dpc # "stopped") => dpc = "exit"]_vars

\* the clip at position n of the lines handed to dmenu, None for a line
\* that is a header or empty: select_clip hands over the labels of pinned
\* then history; pin_menu puts a header before each group and an empty line
\* after the pinned group
LineClip(m, cmd, n) ==
    LET np == Len(pinned[m])
        nh == Len(history[m])
        before == IF cmd = "select" THEN 0 ELSE IF np > 0 THEN 1 ELSE 0
        between == IF cmd = "select" THEN 0 ELSE IF np > 0 THEN 3 ELSE 1
    IN  IF n \in (before + 1)..(before + np) THEN pinned[m][n - before]
        ELSE IF n \in (np + between + 1)..(np + between + nh)
             THEN history[m][n - np - between]
             ELSE None

LineGroup(m, cmd, n) ==
    IF n <= Len(pinned[m]) + (IF cmd = "select" THEN 0 ELSE 1) THEN "P" ELSE "H"

\* C21: in select and pin, when the front-end returns line n of the list it
\* was given, the clip acted on is the clip at position n of that list:
\* select puts that clip on the clipboard, pin unpins it when it is in the
\* pinned group and pins it when it is in the history group, and a header
\* or empty line changes nothing; also when several clips have one preview.
C21_ActsOnClipAtReturnedLine ==
    [][(cpc = "resolve" /\ cpc' # "resolve" /\ sel.line >= 1)
         => LET clip == LineClip(Cli, command, sel.line)
                group == LineGroup(Cli, command, sel.line)
            IN  IF clip = None
                THEN /\ picked'.clip = None
                     /\ UNCHANGED <<clipboard, history, pinned>>
                ELSE /\ picked'.clip = clip
                     /\ picked'.group = group
                     /\ IF command = "select"
                        THEN /\ clipboard' = _restore_clipboard(clip, clipboard, imageDir)
                             /\ UNCHANGED <<history, pinned>>
                        ELSE /\ clipboard' = clipboard
                             /\ <<history'[Cli], pinned'[Cli]>> =
                                  IF group = "P"
                                  THEN Unpin(history[Cli], pinned[Cli], clip)
                                  ELSE Pin(history[Cli], pinned[Cli], clip)]_vars

\* select has restored the second of two history clips whose previews are
\* the same
C21_Witness ==
    /\ command = "select"
    /\ cpc = "done"
    /\ picked # None
    /\ picked.clip # None
    /\ \E i, j \in 1..Len(history[Cli]) :
          /\ i < j
          /\ get_preview(history[Cli][i]) = get_preview(history[Cli][j])
          /\ history[Cli][j] = picked.clip
    /\ clipboard = _restore_clipboard(picked.clip, clipboard, imageDir)

\* C22: when dmenu prints nothing or exits with a status other than 0,
\* select and pin return without an effect: the step that follows run_dmenu
\* ends the command and leaves the clipboard, history and pinned of the
\* command, the history document and the pinned document as they were.
C22_CancelIsNoOp ==
    [][(/\ cpc = "resolve"
        /\ cpc' # "resolve"
        /\ sel.stdout = EmptyString \/ sel.returncode # 0)
         => /\ cpc' = "done"
            /\ UNCHANGED <<clipboard, history, pinned, histDoc, pinDoc>>]_vars

\* C23: a foreground command that ends has exit status 0 when it completed
\* or was cancelled and a status other than 0 when there was no dmenu to
\* execute; the daemon that ends after its interrupt has exit status 0.
C23_ExitStatusTellsMissingTool ==
    [][/\ (cpc # "idle" /\ cpc' = "idle")
            => IF picked # None /\ picked.dmenu = "missing"
               THEN exit_code'[Cli] \notin {None, ExitStatus(0)}
               ELSE exit_code'[Cli] = ExitStatus(0)
       /\ (dpc # "stopped" /\ dpc' = "stopped")
            => exit_code'[Daemon] = ExitStatus(0)]_vars

\* the image files that the Image clips of a list reference
ImagePaths(lst) == KeepPaths(lst, <<>>)

\* the step in which save() of a foreground command returns
FullSaveReturns ==
    /\ cpc \in {"save_pinned", "save_pinned_fallback"}
    /\ cpc' = "done"

\* C24: when a full save returns, the files of the image directory are
\* exactly the files that the Image clips of the saved history and pinned
\* reference: the save has deleted every file that no clip references and
\* no file that a clip references.
C24_ImagesAreTheReferencedOnes ==
    [][FullSaveReturns
         => LET referenced ==
                    ImagePaths(load_clips_from_file(histDoc'))
                        \cup ImagePaths(load_clips_from_file(pinDoc'))
            IN  /\ imageDir' = referenced
                /\ imageDir' \subseteq imageDir
                /\ deleted' = imageDir \ referenced]_vars

\* a full save has deleted the file of an image that left history and has
\* kept the file of an image that a clip references
C24_Witness ==
    /\ cpc = "done"
    /\ command \in {"pin", "clear"}
    /\ deleted # {}
    /\ imageDir # {}
    /\ imageDir = ImagePaths(load_clips_from_file(histDoc))
                      \cup ImagePaths(load_clips_from_file(pinDoc))

\* C25: in the step that integrates new content the daemon takes pinned from
\* the pinned document as it is at that moment, and when the identity of
\* the content is in that document the step inserts nothing into history.
C25_AddUsesCurrentPinned ==
    [][AddStep
         => /\ pinned'[Daemon] = load_clips_from_file(pinDoc)
            /\ Identity(current) \in Identities(load_clips_from_file(pinDoc))
                 => history'[Daemon] = history[Daemon]]_vars

\* the daemon has skipped the add of a clip that it holds in its history,
\* so had not loaded as pinned, and that the pinned document holds since
C25_Witness ==
    /\ dpc = "flush"
    /\ ev.op = "add"
    /\ ev.inPinned
    /\ ev.pos >= 1
    /\ Identity(ev.clip) \in Identities(load_clips_from_file(pinDoc))
    /\ Identity(ev.clip) \in Identities(history[Daemon])

\* the identities the two documents hold
DocumentIdentities(hdoc, pdoc) ==
    Identities(load_clips_from_file(hdoc)) \cup Identities(load_clips_from_file(pdoc))

\* the trimming of a save of process m drops identity id in this step
TrimmedBy(m, id) ==
    /\ id \in Identities(history[m])
    /\ id \notin Identities(TrimHistory(history[m]))

\* C26: under every interleaving, an identity that one of the documents
\* holds is in one of them after every step, unless the step is a save whose
\* trimming drops it or the write of a clear; the history write of a pin is
\* followed by the pinned write that holds the identity. So a clip that a
\* foreground command has unpinned stays in the history document through
\* the saves of the daemon.
C26_ClipsLeaveOnlyByTrimOrClear ==
    [][\A id \in DocumentIdentities(histDoc, pinDoc) :
          \/ id \in DocumentIdentities(histDoc', pinDoc')
          \/ /\ dpc \in {"flush", "final_save"} /\ dpc' # dpc
             /\ TrimmedBy(Daemon, id)
          \/ /\ cpc = "save_history" /\ cpc' # cpc
             /\ \/ TrimmedBy(Cli, id)
                \/ command = "clear"
                \/ id \in Identities(pinned[Cli])]_vars

\* C27: once a foreground clear has completed while the daemon runs, a save
\* of the daemon (the dirty save of a tick or the final save) puts into the
\* history document no identity but the one its current tick read from the
\* clipboard and integrated: it brings no cleared entry back.
C27_ClearedEntriesStayCleared ==
    [][(/\ dpc \in {"flush", "final_save"}
        /\ dpc' \notin {dpc, "final_save"}
        /\ command = "clear"
        /\ cpc = "done")
         => Identities(load_clips_from_file(histDoc'))
                \subseteq (Identities(load_clips_from_file(histDoc))
                              \cup (IF dirty THEN {observed} ELSE {}))]_vars

\* C28: under every interleaving of the daemon with the full save of a
\* foreground command and its cleanup of the images, the file of every
\* Image clip of the history document and of the pinned document exists in
\* the image directory.
C28_PersistedImagesExist ==
    (ImagePaths(load_clips_from_file(histDoc))
        \cup ImagePaths(load_clips_from_file(pinDoc))) \subseteq imageDir


-----------------------------------------------------------------------------
\* mediadl.py: MediaDownloader._run_with_retry.  One call of the method is
\* followed from its entry to its return; the outcome of every subprocess.run
\* is chosen by the environment.

MaxRetries == 3

\* the max_retries argument: None (the default, what both callers pass) or an int
RetryArgs == {None} \cup {[int |-> n] : n \in 0..MaxRetries}

\* Config.max_retries: 3 by default, any int a configuration file holds
ConfigMaxRetries == 0..MaxRetries

\* max_retries = max_retries or self.config.max_retries: None and 0 are falsy
EffectiveMaxRetries(arg, config) ==
    IF arg = None THEN config
    ELSE IF arg.int = 0 THEN config ELSE arg.int

\* subprocess.run(..., check=True, timeout=600): returns, or raises
\* CalledProcessError, TimeoutExpired or OSError
RunOutcomes == {"ok", "exit", "timeout", "oserror"}

wait_time_Linear(attempt) == 2 * attempt

\* wait_time = 2 ** attempt
wait_time(attempt) == 2 ^ attempt

\* the (success, error, retries) tuple the method returns
RetryResult(success, error, retries) ==
    [success |-> success, error |-> error, retries |-> retries]

ErrorMsg(outcome) ==
    IF outcome = "exit" THEN [msg |-> "Exit code"]
    ELSE IF outcome = "timeout" THEN [msg |-> "Download timed out after 10 minutes"]
    ELSE [msg |-> "OSError"]

\* entry of the method and line 284
retry_call(arg, config) ==
    /\ rr.pc = "idle"
    /\ rr' = [NoCall EXCEPT !.pc = "loop", !.arg = arg, !.config = config,
                            !.max_retries = EffectiveMaxRetries(arg, config)]
    /\ UNCHANGED <<clipmgrVars, bw>>

\* one pass of the body of `for attempt in range(max_retries)`
retry_attempt(outcome) ==
    /\ rr.pc = "loop"
    /\ rr.attempt < rr.max_retries
    /\ LET ran == [rr EXCEPT !.outcomes = Append(@, outcome)] IN
       IF outcome = "ok"
       THEN rr' = [ran EXCEPT !.pc = "returned",
                              !.result = RetryResult(TRUE, None, rr.attempt)]
       ELSE IF outcome = "oserror"
       THEN rr' = [ran EXCEPT !.pc = "returned",
                              !.result = RetryResult(FALSE, ErrorMsg(outcome),
                                                     rr.attempt + 1)]
       ELSE IF rr.attempt < rr.max_retries - 1
       THEN rr' = [ran EXCEPT !.pc = "sleep",
                              !.waits = Append(@, wait_time(rr.attempt))]
       ELSE rr' = [ran EXCEPT !.pc = "returned",
                              !.result = RetryResult(FALSE, ErrorMsg(outcome),
                                                     rr.attempt + 1)]
    /\ UNCHANGED <<clipmgrVars, bw>>

\* time.sleep(wait_time) returns and the loop takes its next value
retry_sleep ==
    /\ rr.pc = "sleep"
    /\ rr' = [rr EXCEPT !.pc = "loop", !.attempt = @ + 1]
    /\ UNCHANGED <<clipmgrVars, bw>>

\* the loop ends without a return: line 332
retry_exhausted ==
    /\ rr.pc = "loop"
    /\ rr.attempt >= rr.max_retries
    /\ rr' = [rr EXCEPT !.pc = "returned",
                        !.result = RetryResult(FALSE, [msg |-> "Max retries exceeded"],
                                               rr.max_retries)]
    /\ UNCHANGED <<clipmgrVars, bw>>

NextRetry ==
    \/ \E arg \in RetryArgs, config \in ConfigMaxRetries : retry_call(arg, config)
    \/ \E outcome \in RunOutcomes : retry_attempt(outcome)
    \/ retry_sleep
    \/ retry_exhausted

SpecRetry == Init /\ [][NextRetry]_vars

Failed(outcome) == outcome \in {"exit", "timeout"}

\* C29: _run_with_retry runs the command at most max_retries times; every run
\* before the last one ended with a non-zero exit or a timeout and was followed
\* by a wait of 2^attempt seconds (1, 2, 4, ...); a successful run ends the call
\* with success and the number of failed runs before it; the call returns
\* failure after a failed run only when that run was the max_retries-th, and
\* then reports max_retries; an OSError ends the call with failure at once.
C29_RetryWithBackoff ==
    LET n == Len(rr.outcomes) IN
    /\ n <= rr.max_retries
    /\ \A i \in 1..n : i < n => Failed(rr.outcomes[i])
    /\ \A i \in 1..Len(rr.waits) : rr.waits[i] = 2 ^ (i - 1)
    /\ rr.pc = "sleep" => Len(rr.waits) = n /\ n < rr.max_retries
    /\ rr.pc = "returned" =>
         /\ Len(rr.waits) = IF n = 0 THEN 0 ELSE n - 1
         /\ rr.result.success = (n > 0 /\ rr.outcomes[n] = "ok")
         /\ n > 0 /\ rr.outcomes[n] = "ok" =>
               rr.result = RetryResult(TRUE, None, n - 1)
         /\ n > 0 /\ rr.outcomes[n] = "oserror" => rr.result.retries = n
         /\ n > 0 /\ Failed(rr.outcomes[n]) =>
               n = rr.max_retries /\ rr.result.retries = rr.max_retries
         /\ n = 0 => rr.max_retries = 0 /\ rr.result.retries = 0

\* a call that succeeded at its third run, after waits of 1 and 2 seconds
C29_Witness ==
    /\ rr.pc = "returned"
    /\ rr.outcomes = <<"exit", "timeout", "ok">>
    /\ rr.waits = <<1, 2>>
    /\ rr.result = RetryResult(TRUE, None, 2)


-----------------------------------------------------------------------------
\* bitwarden.py: one launch of the password menu after another.  bw.pc is the
\* position of the main thread, bw.thread the state of the clear_clipboard
\* thread of _copy_to_clipboard, bw.remaining the seconds its sleep still has
\* to run.  The clipboard outlives the process.

NumBwItems == 2
ClearAfter == 2
MaxBwRuns == 2

BwItems == 1..NumBwItems

\* the actions list of handle_action
BwActions ==
    {"Auto-Type Username", "Auto-Type Password", "Copy Username", "Copy Password"}

\* the interpreter ends when the main thread has returned: it does not wait
\* for a daemon thread, which ends with the process
ProcessEnds(b, code) ==
    [b EXCEPT !.pc = "exited", !.exit_code = ExitStatus(code),
              !.thread = IF b.thread = "sleeping" THEN "killed" ELSE b.thread]

\* __main__: BitwardenManager() and run() up to the main menu; _ensure_login
\* and _unlock_session end the process with status 1 when they fail
bw_launch(ok) ==
    /\ bw.pc \in {"idle", "exited"}
    /\ bw.runs < MaxBwRuns
    /\ LET started == [bw EXCEPT !.runs = @ + 1, !.item = 0, !.thread = "none",
                                 !.remaining = 0, !.exit_code = None] IN
       bw' = IF ok THEN [started EXCEPT !.pc = "main_menu"]
             ELSE ProcessEnds(started, 1)
    /\ UNCHANGED <<clipmgrVars, rr>>

\* run(): the selection of the main menu.  "item": an item line, run() goes on
\* to handle_action; "command": add_login, delete_login or view_details, none
\* of which copies; "none": dmenu cancelled
bw_main_menu(selection) ==
    /\ bw.pc = "main_menu"
    /\ bw' = IF selection = "item" THEN [bw EXCEPT !.pc = "item_menu"]
             ELSE [bw EXCEPT !.pc = "return"]
    /\ UNCHANGED <<clipmgrVars, rr>>

\* handle_action up to the actions menu: the item is chosen again; i = 0 is a
\* cancelled dmenu or a line that is no item; _get_password raises
\* RuntimeError when bw fails, which ends the process with a traceback
bw_item_menu(i, bw_ok) ==
    /\ bw.pc = "item_menu"
    /\ bw' = IF i = 0 THEN [bw EXCEPT !.pc = "return"]
             ELSE IF ~bw_ok THEN ProcessEnds(bw, 1)
             ELSE [bw EXCEPT !.pc = "action_menu", !.item = i]
    /\ UNCHANGED <<clipmgrVars, rr>>

\* _copy_to_clipboard(text, clear_after): the copy, and the start of the
\* daemon thread that sleeps clear_after seconds
_copy_to_clipboard(b, content, clear_after) ==
    IF clear_after > 0
    THEN [b EXCEPT !.clipboard = content, !.thread = "sleeping",
                   !.remaining = clear_after]
    ELSE [b EXCEPT !.clipboard = content]

\* handle_action: the action chosen in the actions menu, up to the call of
\* _notify of the copy branches; "" is a cancelled dmenu
bw_action_menu(action) ==
    /\ bw.pc = "action_menu"
    /\ bw' = IF action = "Copy Username"
             THEN [_copy_to_clipboard(bw, BwContent("username", bw.item), ClearAfter)
                     EXCEPT !.pc = "notify"]
             ELSE IF action = "Copy Password"
             THEN [_copy_to_clipboard(bw, BwContent("password", bw.item), ClearAfter)
                     EXCEPT !.pc = "notify"]
             ELSE [bw EXCEPT !.pc = "return"]
    /\ UNCHANGED <<clipmgrVars, rr>>

\* _notify("... copied to clipboard") returns
bw_notify ==
    /\ bw.pc = "notify"
    /\ bw' = [bw EXCEPT !.pc = "return"]
    /\ UNCHANGED <<clipmgrVars, rr>>

\* handle_action and run() return, the module ends
bw_exit ==
    /\ bw.pc = "return"
    /\ bw' = ProcessEnds(bw, 0)
    /\ UNCHANGED <<clipmgrVars, rr>>

\* clear_clipboard: one second of sleep(clear_after) passes
bw_tick ==
    /\ bw.thread = "sleeping"
    /\ bw.remaining > 0
    /\ bw' = [bw EXCEPT !.remaining = @ - 1]
    /\ UNCHANGED <<clipmgrVars, rr>>

\* clear_clipboard: sleep has returned, the empty text is copied
bw_clear ==
    /\ bw.thread = "sleeping"
    /\ bw.remaining = 0
    /\ bw' = [bw EXCEPT !.clipboard = BwContent("empty", 0), !.thread = "cleared"]
    /\ UNCHANGED <<clipmgrVars, rr>>

BwMainThread == bw_notify \/ bw_exit

NextBw ==
    \/ \E ok \in BOOLEAN : bw_launch(ok)
    \/ \E selection \in {"item", "command", "none"} : bw_main_menu(selection)
    \/ \E i \in {0} \cup BwItems, bw_ok \in BOOLEAN : bw_item_menu(i, bw_ok)
    \/ \E action \in BwActions \cup {""} : bw_action_menu(action)
    \/ bw_notify
    \/ bw_exit
    \/ bw_tick
    \/ bw_clear

\* the main thread runs on when it is not waiting for dmenu, and a thread that
\* exists gets its seconds and its step; the user owes the menus nothing
SpecBw ==
    /\ Init
    /\ [][NextBw]_vars
    /\ WF_vars(BwMainThread)
    /\ WF_vars(bw_tick)
    /\ WF_vars(bw_clear)

BwSecretCopied == bw.clipboard.kind \in {"username", "password"}

\* C30: once Copy Username or Copy Password has put a secret on the clipboard
\* (clear_after = 30 > 0), the clipboard is eventually overwritten with the
\* empty text, in every run of the program.
C30_ClipboardEventuallyCleared ==
    BwSecretCopied ~> (bw.clipboard = BwContent("empty", 0))

====
